---- MODULE Spec2Model ----
(***************************************************************************)
(* Model of the simulated backend of src/src/App.tsx: the localStorage     *)
(* store (LS), seedOnce and the operations of the `api` object.            *)
(*                                                                         *)
(* Every async operation of `api` is `await delay(ms)` followed by a       *)
(* synchronous body; JavaScript runs that body to completion, so one       *)
(* action of this model is one body.  The arguments of a call do not       *)
(* depend on the store, so drawing them when the body runs reaches the     *)
(* same stores as drawing them when the call is made.                      *)
(*                                                                         *)
(* Optional fields (`x?: T`) are modelled by records whose DOMAIN lacks    *)
(* the field; `null` is None == <<>> and a present value v is Some(v).     *)
(* Timestamps (todayStr(), Date.now()) are readings of the clock `now`.    *)
(***************************************************************************)
EXTENDS Integers, Sequences, FiniteSets, TLC

VARIABLES
  lv_seeded,    \* localStorage "lv_seeded"   (LS.get fallback false)
  lv_users,     \* localStorage "lv_users"    (LS.get fallback [])
  lv_products,  \* localStorage "lv_products" (LS.get fallback [])
  lv_sales,     \* localStorage "lv_sales"    (LS.get fallback [])
  lv_contacts,  \* localStorage "lv_contacts" (LS.get fallback [])
  lv_access,    \* localStorage "lv_access"   (LS.get fallback null)
  now,          \* the wall clock read by todayStr() and Date.now()
  events,       \* number of "lv:sales-change" events dispatched so far
  last,         \* the last completed call: operation, argument, error thrown, result
  dispatched,   \* the "lv:sales-change" events the last completed call dispatched,
                \* each as the store its listeners read when they run
  assigned,     \* history: every id ever given to a product
  signed_in,    \* history: the user the last successful login returned, if no
                \* logout has come since; None otherwise
  pending,      \* the calls invoked and waiting in `await delay(ms)`
  running,      \* the createSale body between its first and last statement,
                \* with what it has read and computed; None when no body runs
  serial,       \* history: the Product and Sale collections that running the
                \* bodies whole, in the order their delays expired, leaves
  overtaken,    \* history: the calls that were waiting when logout last ran
  editing,      \* the `editing` state of the Products screen: None or the record
  parsed,       \* the last call of parseBRLToCents: its argument and result
  spoiled       \* history: the key whose payload was last removed or overwritten
                \* from outside the program, the payload it got, whether
                \* LS.get of it raises, and how often this has happened

vars == <<lv_seeded, lv_users, lv_products, lv_sales, lv_contacts, lv_access, now, events, last,
         dispatched, assigned, signed_in, pending, running, serial, overtaken, editing, parsed, spoiled>>

\* the bookkeeping of the calls in flight
tasks == <<pending, running, serial, overtaken>>

----------------------------------------------------------------------------
(* Bounds of the model *)

MaxTime == 1        \* the clock runs over 0..MaxTime
MaxSales == 2       \* createSale records no sale beyond this many
MaxProductId == 6   \* upsertProduct creates no product above this id
MaxContacts == 2    \* sendContact stores no message beyond this many
MaxPending == 3     \* no more than this many calls wait in their delay at once
MaxAmountLen == 4   \* the typed amounts are all strings of up to this many characters
MaxSpoils == 1      \* the storage is changed from outside at most this many times

----------------------------------------------------------------------------
(* JavaScript values *)

None == <<>>
Some(v) == <<v>>

\* the err of a call that did not throw
NoError == <<>>

Has(r, f) == f \in DOMAIN r

\* { ...a, ...b }
Spread(a, b) ==
  [f \in (DOMAIN a) \cup (DOMAIN b) |-> IF f \in DOMAIN b THEN b[f] ELSE a[f]]

\* r.f ?? d   (the field is undefined when the record lacks it; a nullable
\* field holds None or Some(v), and None ?? None is None)
OrDefault(r, f, d) == IF Has(r, f) THEN r[f] ELSE d

\* r.f || d for a string field (d when undefined or "")
OrStr(r, f, d) == IF Has(r, f) /\ r[f] # "" THEN r[f] ELSE d

\* r.f || 0 for a number field
OrZero(r, f) == IF Has(r, f) THEN r[f] ELSE 0

Max(a, b) == IF a >= b THEN a ELSE b

\* list.at(-1)?.id ?? 0
LastId(list) == IF Len(list) = 0 THEN 0 ELSE list[Len(list)].id

\* the ids of a collection
IdsOf(list) == {list[k].id : k \in 1..Len(list)}

\* list.findIndex(x => x.id === id), 1-based, 0 when there is none
FindIndexById(list, id) ==
  IF \E i \in 1..Len(list) : list[i].id = id
    THEN CHOOSE i \in 1..Len(list) :
           /\ list[i].id = id
           /\ \A j \in 1..(i - 1) : list[j].id # id
    ELSE 0

\* list.filter(x => x.id !== id)
RECURSIVE FilterOutId(_, _)
FilterOutId(list, id) ==
  IF Len(list) = 0 THEN <<>>
  ELSE IF Head(list).id # id
         THEN <<Head(list)>> \o FilterOutId(Tail(list), id)
         ELSE FilterOutId(Tail(list), id)

----------------------------------------------------------------------------
(* seedOnce *)

SeedUsers ==
  << [id |-> 1, name |-> "Admin LV", email |-> "admin@padarialv.com",
      roles |-> <<"manager">>, password |-> "123456", is_active |-> TRUE],
     [id |-> 2, name |-> "Caixa 1", email |-> "caixa@padarialv.com",
      roles |-> <<"cashier">>, password |-> "123456", is_active |-> TRUE],
     [id |-> 3, name |-> "Estoquista", email |-> "estoque@padarialv.com",
      roles |-> <<"stockist">>, password |-> "123456", is_active |-> TRUE] >>

\* expires_at is Date.now() plus or minus whole days; one clock unit is a day
SeedProducts(t) ==
  << [id |-> 1, name |-> "Pao Frances", description |-> "Casquinha crocante",
      price_cents |-> 90, quantity |-> 200, expires_at |-> Some(t + 1),
      category |-> "paes", is_active |-> TRUE,
      image_url |-> "https://experts.nita.com.br/img/posts/9052e329ff0fc509b905a5c63f1f80325e29d29d.jpg",
      created_at |-> t, updated_at |-> t],
     [id |-> 2, name |-> "Bolo de Cenoura", description |-> "Cobertura de chocolate",
      price_cents |-> 3500, quantity |-> 10, expires_at |-> Some(t + 5),
      category |-> "bolos", is_active |-> TRUE,
      image_url |-> "https://recipesblob.oetker.com.br/assets/11ed1b54a18b427ea8e7f7d141f0a34d/1272x764/bolo_cenoura_horizontal.webp",
      created_at |-> t, updated_at |-> t],
     [id |-> 3, name |-> "Sonho", description |-> "Recheio de creme",
      price_cents |-> 1200, quantity |-> 20, expires_at |-> Some(t + 2),
      category |-> "doces", is_active |-> TRUE,
      image_url |-> "https://encrypted-tbn0.gstatic.com/images?q=tbn:ANd9GcQHLvp2jBTVjO3k8BwdAESo0MNp7hn9jQ3YoQ&s",
      created_at |-> t, updated_at |-> t],
     [id |-> 4, name |-> "Pao Italiano", description |-> "Miolo macio",
      price_cents |-> 1890, quantity |-> 40, expires_at |-> Some(t - 1),
      category |-> "paes", is_active |-> TRUE,
      image_url |-> "https://i.panelinha.com.br/i1/bk-9294-pao-italiano-caseiro.webp",
      created_at |-> t, updated_at |-> t] >>

\* the record of a completed call: input is its argument (None when it takes
\* none), ret is Some(returned value), None after a throw or for a void call
Call(op, input, err, ret) == [op |-> op, input |-> input, err |-> err, ret |-> ret]

\* seedOnce without the test of "lv_seeded"
seedOnceAlways ==
  /\ lv_users' = SeedUsers
  /\ lv_products' = SeedProducts(now)
  /\ lv_sales' = <<>>
  /\ lv_contacts' = <<>>
  /\ lv_seeded' = TRUE
  /\ assigned' = assigned \cup IdsOf(SeedProducts(now))
  /\ last' = Call("seedOnce", None, NoError, None)
  /\ dispatched' = <<>>
  /\ UNCHANGED <<lv_access, now, events, signed_in,
                 tasks, editing, parsed, spoiled>>

seedOnce ==
  /\ IF lv_seeded
       THEN UNCHANGED <<lv_users, lv_products, lv_sales, lv_contacts, lv_seeded, assigned>>
       ELSE /\ lv_users' = SeedUsers
            /\ lv_products' = SeedProducts(now)
            /\ lv_sales' = <<>>
            /\ lv_contacts' = <<>>
            /\ lv_seeded' = TRUE
            /\ assigned' = assigned \cup IdsOf(SeedProducts(now))
  /\ last' = Call("seedOnce", None, NoError, None)
  /\ dispatched' = <<>>
  /\ UNCHANGED <<lv_access, now, events, signed_in,
                 tasks, editing, parsed, spoiled>>

----------------------------------------------------------------------------
(* LS: the payload under a key is missing (getItem returns null), the empty
   string, a string JSON.parse rejects, or the JSON text of a value *)

Keys == {"lv_seeded", "lv_users", "lv_products", "lv_sales", "lv_contacts", "lv_access"}

\* the fallback the program passes to LS.get for each key
Fallback(key) ==
  CASE key = "lv_seeded" -> FALSE
    [] key = "lv_access" -> None
    [] OTHER -> <<>>

\* LS.get without its catch
LSgetUncaught(payload, fallback) ==
  CASE payload.kind \in {"missing", "empty"} -> [raised |-> FALSE, value |-> fallback]
    [] payload.kind = "malformed" -> [raised |-> TRUE, value |-> fallback]
    [] OTHER -> [raised |-> FALSE, value |-> payload.value]

\* LS.get(key, fallback) on the payload stored under key: `raw ? JSON.parse(raw)
\* : fallback` inside try, `return fallback` in the catch
LSget(payload, fallback) ==
  CASE payload.kind \in {"missing", "empty"} -> [raised |-> FALSE, value |-> fallback]
    [] payload.kind = "malformed" -> [raised |-> FALSE, value |-> fallback]
    [] OTHER -> [raised |-> FALSE, value |-> payload.value]

\* the keys each operation reads with LS.get
KeysRead(op) ==
  CASE op = "seedOnce" -> {"lv_seeded"}
    [] op = "login" -> {"lv_users"}
    [] op = "me" -> {"lv_access", "lv_users"}
    [] op \in {"listProducts", "upsertProduct", "deleteProduct"} -> {"lv_products"}
    [] op = "createSale" -> {"lv_products", "lv_sales", "lv_access", "lv_users"}
    [] op = "sendContact" -> {"lv_contacts"}
    [] OTHER -> {}

\* operation op, whose body on what LS.get returns is A: nothing in op
\* catches what LS.get raises
onStore(op, A) ==
  IF spoiled.raised /\ spoiled.key \in KeysRead(op)
    THEN /\ last' = Call(op, None, <<"SyntaxError">>, None)
         /\ UNCHANGED <<lv_seeded, lv_users, lv_products, lv_sales, lv_contacts, lv_access, now,
                        events, dispatched, assigned, signed_in, tasks, editing, parsed, spoiled>>
    ELSE A

----------------------------------------------------------------------------
(* Inputs of the calls *)

Credentials ==
  { <<"caixa@padarialv.com", "123456">>, <<"caixa@padarialv.com", "000000">> }

\* the cashier, the cashier with a wrong password, the manager, the manager's
\* password with an email no user has
SessionCredentials ==
  { <<"caixa@padarialv.com", "123456">>, <<"caixa@padarialv.com", "000000">>,
    <<"admin@padarialv.com", "123456">>, <<"gerente@padarialv.com", "123456">> }

\* product ids named by deleteProduct: 2 is seeded, 9 is never assigned
ProductIdInputs == {2, 9}

ReceiptCodes == {"LV-8K2QZA"}

\* createSale payloads.  Product 1 is seeded with 200 in stock, product 2 with
\* 10 (7 after the upsert of ProductInputs), product 9 never exists.
SalePayloads ==
  { \* two products; the second line runs short once product 2 is below 6
    [items |-> <<[product_id |-> 1, qty |-> 2], [product_id |-> 2, qty |-> 6]>>,
     payment_method |-> "card", discount_cents |-> 100],
    \* a missing product after a line that may or may not pass
    [items |-> <<[product_id |-> 2, qty |-> 6], [product_id |-> 9, qty |-> 2]>>,
     payment_method |-> "cash"],
    \* a missing product before a line that may or may not pass
    [items |-> <<[product_id |-> 9, qty |-> 2], [product_id |-> 2, qty |-> 6]>>,
     payment_method |-> "cash"],
    \* two lines for the same product, a discount above the subtotal
    [items |-> <<[product_id |-> 2, qty |-> 6], [product_id |-> 2, qty |-> 6]>>,
     payment_method |-> "pix", discount_cents |-> 100000],
    \* a quantity that is not positive, no discount
    [items |-> <<[product_id |-> 1, qty |-> -1]>>,
     payment_method |-> "cash"] }

\* the payloads drawn where createSale runs among all the other operations
BasicPayloads ==
  { [items |-> <<[product_id |-> 1, qty |-> 2], [product_id |-> 2, qty |-> 6]>>,
     payment_method |-> "card", discount_cents |-> 100],
    [items |-> <<[product_id |-> 2, qty |-> 6], [product_id |-> 9, qty |-> 2]>>,
     payment_method |-> "cash"] }

EmptyInput == [f \in {} |-> 0]

\* upsertProduct inputs: nothing supplied; the editor's id 0 with some fields;
\* the id of a seeded product with a new price and stock; an id that is the
\* next to be given after the seed
ProductInputs ==
  { EmptyInput,
    [id |-> 0, name |-> "Pao de Queijo", price_cents |-> 350],
    [id |-> 2, price_cents |-> 350, quantity |-> 7],
    [id |-> 5, quantity |-> 3] }

\* the inputs drawn where upsertProduct runs among all the other operations
BasicProductInputs ==
  { EmptyInput, [id |-> 2, price_cents |-> 350, quantity |-> 7] }

\* upsertProduct inputs of the product editor and of direct callers: nothing
\* supplied; the form of a new product as startEdit() fills it, left blank;
\* every field of a new product; new price and stock for product 2; a new
\* name and no expiry for product 3 with an updated_at of the caller's; a
\* created_at of the caller's for product 1
EditInputs ==
  { EmptyInput,
    [id |-> 0, name |-> "", description |-> "", price_cents |-> 0, quantity |-> 0,
     expires_at |-> None, category |-> "outros", is_active |-> TRUE,
     created_at |-> 0, updated_at |-> 0],
    [name |-> "Pao de Queijo", description |-> "Quentinho", price_cents |-> 350,
     cost_cents |-> Some(120), quantity |-> 30, expires_at |-> Some(3),
     category |-> "paes", is_active |-> FALSE, image_url |-> "/img/pao-de-queijo.jpg"],
    [id |-> 2, price_cents |-> 350, quantity |-> 7],
    [id |-> 3, name |-> "Sonho de Creme", expires_at |-> None, updated_at |-> -5],
    [id |-> 1, created_at |-> 9] }

\* ids named by deleteProduct where products are created and deleted in turn:
\* the last seeded product and the first one created after the seed
TailProductIds == {4, 5}

ContactInputs ==
  { [name |-> "Ana", email |-> "ana@exemplo.com", message |-> "Encomenda de bolo"] }

----------------------------------------------------------------------------
(* api.login / api.logout / api.me *)

\* FindUser comparing the email alone
FindUserAnyPassword(users, email, password) ==
  LET hits == {i \in 1..Len(users) : users[i].email = email /\ users[i].is_active}
  IN IF hits = {} THEN None
     ELSE Some(users[CHOOSE i \in hits : \A j \in hits : i <= j])

\* users.find(x => x.email === email && x.password === password && x.is_active)
FindUser(users, email, password) ==
  LET hits == {i \in 1..Len(users) :
                 /\ users[i].email = email
                 /\ users[i].password = password
                 /\ users[i].is_active}
  IN IF hits = {} THEN None
     ELSE Some(users[CHOOSE i \in hits : \A j \in hits : i <= j])

\* one call login(cred[1], cred[2])
loginCall(cred) ==
  LET u == FindUser(lv_users, cred[1], cred[2]) IN
  /\ IF u = None
       THEN /\ last' = Call("login", cred, <<"Credenciais invalidas">>, None)
            /\ UNCHANGED <<lv_access, signed_in>>
       ELSE /\ lv_access' = Some([token |-> <<u[1].id, now>>, userId |-> u[1].id, at |-> now])
            /\ last' = Call("login", cred, NoError, u)
            /\ signed_in' = u
  /\ dispatched' = <<>>
  /\ UNCHANGED <<lv_seeded, lv_users, lv_products, lv_sales, lv_contacts, now, events, assigned,
                 tasks, editing, parsed, spoiled>>

login == \E cred \in Credentials : loginCall(cred)

\* logout leaving the session where it is
logoutKeepingSession ==
  /\ last' = Call("logout", None, NoError, None)
  /\ signed_in' = None
  /\ dispatched' = <<>>
  /\ overtaken' = pending
  /\ UNCHANGED <<lv_seeded, lv_users, lv_products, lv_sales, lv_contacts, lv_access, now, events,
                 assigned, pending, running, serial, editing, parsed, spoiled>>

logout ==
  /\ lv_access' = None
  /\ last' = Call("logout", None, NoError, None)
  /\ signed_in' = None
  /\ dispatched' = <<>>
  /\ overtaken' = pending
  /\ UNCHANGED <<lv_seeded, lv_users, lv_products, lv_sales, lv_contacts, now, events, assigned,
                 pending, running, serial, editing, parsed, spoiled>>

\* api.me(): the user the session names, or null
MeOf(access, users) ==
  IF access = None THEN None
  ELSE LET idx == FindIndexById(users, access[1].userId)
       IN IF idx = 0 THEN None ELSE Some(users[idx])

me ==
  /\ last' = Call("me", None, NoError, MeOf(lv_access, lv_users))
  /\ dispatched' = <<>>
  /\ UNCHANGED <<lv_seeded, lv_users, lv_products, lv_sales, lv_contacts, lv_access, now, events,
                 assigned, signed_in,
                 tasks, editing, parsed, spoiled>>

----------------------------------------------------------------------------
(* api.listProducts / api.upsertProduct / api.deleteProduct *)

RECURSIVE FilterActive(_)
FilterActive(list) ==
  IF Len(list) = 0 THEN <<>>
  ELSE IF Head(list).is_active
         THEN <<Head(list)>> \o FilterActive(Tail(list))
         ELSE FilterActive(Tail(list))

listProducts ==
  \E onlyActive \in BOOLEAN :
    /\ last' = Call("listProducts", onlyActive, NoError,
                    Some(IF onlyActive THEN FilterActive(lv_products) ELSE lv_products))
    /\ dispatched' = <<>>
    /\ UNCHANGED <<lv_seeded, lv_users, lv_products, lv_sales, lv_contacts, lv_access, now, events,
                   assigned, signed_in,
                 tasks, editing, parsed, spoiled>>

\* the index of the product an upsert updates, 0 when the upsert creates
UpsertTarget(list, input) ==
  IF Has(input, "id") /\ input.id # 0 THEN FindIndexById(list, input.id) ELSE 0

\* UpdatedProduct spreading the input last: { ...list[idx], updated_at: now, ...input }
UpdatedProductInputLast(old, input, t) == Spread(Spread(old, [updated_at |-> t]), input)

\* { ...list[idx], ...input, updated_at: now }
UpdatedProduct(old, input, t) == Spread(Spread(old, input), [updated_at |-> t])

\* NewProductId counting the products instead of reading the last id
NewProductIdByCount(list) == Len(list) + 1

NewProductId(list) == LastId(list) + 1

\* CreatedProduct with the defaults of the new-product form for every field
\* (the string defaults all "")
CreatedProductBlankName(list, input, t) ==
  [id |-> NewProductId(list),
   name |-> OrStr(input, "name", ""),
   description |-> OrStr(input, "description", ""),
   price_cents |-> OrDefault(input, "price_cents", 0),
   cost_cents |-> OrDefault(input, "cost_cents", None),
   quantity |-> OrDefault(input, "quantity", 0),
   expires_at |-> OrDefault(input, "expires_at", None),
   category |-> OrDefault(input, "category", "outros"),
   is_active |-> OrDefault(input, "is_active", TRUE),
   image_url |-> OrStr(input, "image_url", ""),
   created_at |-> t,
   updated_at |-> t]

CreatedProduct(list, input, t) ==
  [id |-> NewProductId(list),
   name |-> OrStr(input, "name", "Produto"),
   description |-> OrStr(input, "description", ""),
   price_cents |-> OrDefault(input, "price_cents", 0),
   cost_cents |-> OrDefault(input, "cost_cents", None),
   quantity |-> OrDefault(input, "quantity", 0),
   expires_at |-> OrDefault(input, "expires_at", None),
   category |-> OrDefault(input, "category", "outros"),
   is_active |-> OrDefault(input, "is_active", TRUE),
   image_url |-> OrStr(input, "image_url", ""),
   created_at |-> t,
   updated_at |-> t]

\* the Product collection after upsertProduct(input) at time t
UpsertedProducts(list, input, t) ==
  LET idx == UpsertTarget(list, input) IN
  IF idx > 0
    THEN [list EXCEPT ![idx] = UpdatedProduct(list[idx], input, t)]
    ELSE Append(list, CreatedProduct(list, input, t))

\* one call upsertProduct(input)
upsertProductCall(input) ==
  LET idx == UpsertTarget(lv_products, input) IN
  /\ idx = 0 => NewProductId(lv_products) <= MaxProductId
  /\ lv_products' = UpsertedProducts(lv_products, input, now)
  /\ last' = Call("upsertProduct", input, NoError,
                  Some(IF idx > 0 THEN UpdatedProduct(lv_products[idx], input, now)
                                  ELSE CreatedProduct(lv_products, input, now)))
  /\ assigned' = IF idx > 0 THEN assigned ELSE assigned \cup {NewProductId(lv_products)}
  /\ dispatched' = <<>>
  /\ UNCHANGED <<lv_seeded, lv_users, lv_sales, lv_contacts, lv_access, now, events, signed_in,
                 tasks, parsed, spoiled>>

upsertProduct(inputs) ==
  /\ \E input \in inputs : upsertProductCall(input)
  /\ UNCHANGED editing

\* deleteProductCall dropping the product and all that follow it
\* (splice(idx) for filter)
deleteProductCallTruncating(id) ==
  /\ lv_products' = IF FindIndexById(lv_products, id) = 0 THEN lv_products
                    ELSE SubSeq(lv_products, 1, FindIndexById(lv_products, id) - 1)
  /\ last' = Call("deleteProduct", id, NoError, None)
  /\ dispatched' = <<>>
  /\ UNCHANGED <<lv_seeded, lv_users, lv_sales, lv_contacts, lv_access, now, events, assigned,
                 signed_in,
                 tasks, editing, parsed, spoiled>>

\* one call deleteProduct(id)
deleteProductCall(id) ==
  /\ lv_products' = FilterOutId(lv_products, id)
  /\ last' = Call("deleteProduct", id, NoError, None)
  /\ dispatched' = <<>>
  /\ UNCHANGED <<lv_seeded, lv_users, lv_sales, lv_contacts, lv_access, now, events, assigned,
                 signed_in,
                 tasks, editing, parsed, spoiled>>

deleteProduct == \E id \in ProductIdInputs : deleteProductCall(id)

----------------------------------------------------------------------------
(* api.createSale *)

\* LineError without the stock comparison
LineErrorNoStock(products, it) ==
  IF FindIndexById(products, it.product_id) = 0
    THEN <<"Produto nao encontrado">>
    ELSE NoError

\* what the callback of payload.items.map throws for one line, if anything
LineError(products, it) ==
  LET idx == FindIndexById(products, it.product_id) IN
  IF idx = 0 THEN <<"Produto nao encontrado">>
  ELSE IF products[idx].quantity < it.qty
         THEN <<"Estoque insuficiente de", products[idx].name>>
         ELSE NoError

\* FirstBadLine reporting the last offending line instead of the first
FirstBadLineLast(products, lines) ==
  IF \E i \in 1..Len(lines) : LineError(products, lines[i]) # NoError
    THEN CHOOSE i \in 1..Len(lines) :
           /\ LineError(products, lines[i]) # NoError
           /\ \A j \in (i + 1)..Len(lines) : LineError(products, lines[j]) = NoError
    ELSE 0

\* the first line, in input order, whose callback throws; 0 when none does
FirstBadLine(products, lines) ==
  IF \E i \in 1..Len(lines) : LineError(products, lines[i]) # NoError
    THEN CHOOSE i \in 1..Len(lines) :
           /\ LineError(products, lines[i]) # NoError
           /\ \A j \in 1..(i - 1) : LineError(products, lines[j]) = NoError
    ELSE 0

\* SaleItemOf numbering the items from 0, as the map index does
SaleItemOfZeroBased(products, it, i) ==
  LET prod == products[FindIndexById(products, it.product_id)] IN
  [id |-> i - 1, product_id |-> prod.id, qty |-> it.qty,
   unit_price_cents |-> prod.price_cents,
   subtotal_cents |-> prod.price_cents * it.qty]

SaleItemOf(products, it, i) ==
  LET prod == products[FindIndexById(products, it.product_id)] IN
  [id |-> i, product_id |-> prod.id, qty |-> it.qty,
   unit_price_cents |-> prod.price_cents,
   subtotal_cents |-> prod.price_cents * it.qty]

SaleItems(products, lines) ==
  [i \in 1..Len(lines) |-> SaleItemOf(products, lines[i], i)]

\* items.reduce((s, it) => s + it.subtotal_cents, 0)
RECURSIVE SumSubtotals(_)
SumSubtotals(items) ==
  IF Len(items) = 0 THEN 0
  ELSE Head(items).subtotal_cents + SumSubtotals(Tail(items))

SaleTotal(items, payload) == SumSubtotals(items) - OrZero(payload, "discount_cents")

\* NewSaleId taking the number of recorded sales for the id
NewSaleIdByCount(sales) == Len(sales)

NewSaleId(sales) == LastId(sales) + 1

\* me?.id || 0
CashierId(access, users) ==
  LET u == MeOf(access, users) IN IF u = None THEN 0 ELSE u[1].id

\* NewSale without the floor at 0
NewSaleNoFloor(sales, items, payload, cashier, t, code) ==
  [id |-> NewSaleId(sales),
   cashier_id |-> cashier,
   total_cents |-> SaleTotal(items, payload),
   discount_cents |-> OrZero(payload, "discount_cents"),
   paid_cents |-> SaleTotal(items, payload),
   payment_method |-> payload.payment_method,
   issued_at |-> t,
   receipt_code |-> code,
   items |-> items]

NewSale(sales, items, payload, cashier, t, code) ==
  [id |-> NewSaleId(sales),
   cashier_id |-> cashier,
   total_cents |-> Max(0, SaleTotal(items, payload)),
   discount_cents |-> OrZero(payload, "discount_cents"),
   paid_cents |-> Max(0, SaleTotal(items, payload)),
   payment_method |-> payload.payment_method,
   issued_at |-> t,
   receipt_code |-> code,
   items |-> items]

\* items.find(i => i.product_id === p.id): 1-based index, 0 when there is none
FindItemFor(items, pid) ==
  IF \E i \in 1..Len(items) : items[i].product_id = pid
    THEN CHOOSE i \in 1..Len(items) :
           /\ items[i].product_id = pid
           /\ \A j \in 1..(i - 1) : items[j].product_id # pid
    ELSE 0

\* products.map(p => it ? { ...p, quantity: p.quantity - it.qty, updated_at } : p)
DecrementStock(products, items, t) ==
  [k \in 1..Len(products) |->
     LET it == FindItemFor(items, products[k].id) IN
     IF it # 0
       THEN [products[k] EXCEPT !.quantity = @ - items[it].qty, !.updated_at = t]
       ELSE products[k]]

\* the error createSale(payload) throws on these products, NoError when none
SaleError(products, payload) ==
  LET bad == FirstBadLine(products, payload.items) IN
  IF bad = 0 THEN NoError ELSE LineError(products, payload.items[bad])

\* SalesAfterSale putting the new sale in front (unshift for push)
SalesAfterSaleInFront(sales, products, payload, cashier, t, code) ==
  IF SaleError(products, payload) # NoError THEN sales
  ELSE <<NewSale(sales, SaleItems(products, payload.items),
                 payload, cashier, t, code)>> \o sales

\* the Sale collection createSale(payload) leaves (written only after the map
\* over the lines has returned)
SalesAfterSale(sales, products, payload, cashier, t, code) ==
  IF SaleError(products, payload) # NoError THEN sales
  ELSE Append(sales, NewSale(sales, SaleItems(products, payload.items),
                             payload, cashier, t, code))

\* ProductsAfterSale taking stock line by line while validating, so that the
\* lines before an offending one have already been taken
ProductsAfterSaleEager(products, payload, t) ==
  LET bad == FirstBadLine(products, payload.items)
      done == IF bad = 0 THEN payload.items ELSE SubSeq(payload.items, 1, bad - 1)
  IN DecrementStock(products, SaleItems(products, done), t)

\* the Product collection createSale(payload) leaves
ProductsAfterSale(products, payload, t) ==
  IF SaleError(products, payload) # NoError THEN products
  ELSE DecrementStock(products, SaleItems(products, payload.items), t)

\* DispatchedBySale dispatching before LS.set("lv_products", updatedProducts)
DispatchedBySaleEarly(sales, products, payload, cashier, t, code) ==
  IF SaleError(products, payload) # NoError THEN <<>>
  ELSE << [sales |-> SalesAfterSale(sales, products, payload, cashier, t, code),
           products |-> products] >>

\* the events createSale(payload) dispatches: none when it throws, else one
\* "lv:sales-change" after both LS.set calls; dispatchEvent runs the listeners
\* before it returns, so they read the store as those writes left it
DispatchedBySale(sales, products, payload, cashier, t, code) ==
  IF SaleError(products, payload) # NoError THEN <<>>
  ELSE << [sales |-> SalesAfterSale(sales, products, payload, cashier, t, code),
           products |-> ProductsAfterSale(products, payload, t)] >>

\* one call createSale(payload) whose receipt code comes out as code
createSaleCall(payload, code) ==
  LET err == SaleError(lv_products, payload)
      after == SalesAfterSale(lv_sales, lv_products, payload,
                              CashierId(lv_access, lv_users), now, code)
  IN
  /\ err = NoError => Len(lv_sales) < MaxSales
  /\ lv_sales' = after
  /\ lv_products' = ProductsAfterSale(lv_products, payload, now)
  /\ dispatched' = DispatchedBySale(lv_sales, lv_products, payload,
                                    CashierId(lv_access, lv_users), now, code)
  /\ events' = events + Len(dispatched')
  /\ last' = Call("createSale", payload, err,
                  IF err = NoError THEN Some(after[Len(after)]) ELSE None)
  /\ UNCHANGED <<lv_seeded, lv_users, lv_contacts, lv_access, now, assigned, signed_in,
                 tasks, editing, parsed, spoiled>>

createSale(payloads) ==
  \E payload \in payloads, code \in ReceiptCodes : createSaleCall(payload, code)

----------------------------------------------------------------------------
(* api.sendContact *)

\* { id: (list.at(-1)?.id ?? 0) + 1, created_at: todayStr(), ...input }
NewContact(list, input, t) ==
  Spread([id |-> LastId(list) + 1, created_at |-> t], input)

\* sendContact storing the new message alone
sendContactReplacing ==
  /\ Len(lv_contacts) < MaxContacts
  /\ \E input \in ContactInputs :
       LET msg == NewContact(lv_contacts, input, now) IN
       /\ lv_contacts' = <<msg>>
       /\ last' = Call("sendContact", input, NoError, Some(msg))
  /\ dispatched' = <<>>
  /\ UNCHANGED <<lv_seeded, lv_users, lv_products, lv_sales, lv_access, now, events, assigned,
                 signed_in,
                 tasks, editing, parsed, spoiled>>

sendContact ==
  /\ Len(lv_contacts) < MaxContacts
  /\ \E input \in ContactInputs :
       LET msg == NewContact(lv_contacts, input, now) IN
       /\ lv_contacts' = Append(lv_contacts, msg)
       /\ last' = Call("sendContact", input, NoError, Some(msg))
  /\ dispatched' = <<>>
  /\ UNCHANGED <<lv_seeded, lv_users, lv_products, lv_sales, lv_access, now, events, assigned,
                 signed_in,
                 tasks, editing, parsed, spoiled>>

----------------------------------------------------------------------------
(* Calls in flight: invocation, `await delay(ms)`, body *)

\* the calls invoked while others are in flight: two sales that both take of
\* product 2, an edit of product 2, a creation, the deletion of product 2, a
\* listing
TaskCalls ==
  { [op |-> "createSale",
     input |-> [items |-> <<[product_id |-> 1, qty |-> 2], [product_id |-> 2, qty |-> 6]>>,
                payment_method |-> "card", discount_cents |-> 100]],
    [op |-> "createSale",
     input |-> [items |-> <<[product_id |-> 2, qty |-> 6]>>, payment_method |-> "cash"]],
    [op |-> "upsertProduct", input |-> [id |-> 2, price_cents |-> 350, quantity |-> 7]],
    [op |-> "upsertProduct", input |-> EmptyInput],
    [op |-> "deleteProduct", input |-> 2],
    [op |-> "listProducts", input |-> FALSE] }

\* LoopFree for a host that starts a timer callback while a body is running
LoopFreeAlways == TRUE

\* the call stack is empty: a timer callback (the rest of a call after its
\* `await delay`) or an event handler starts only then
LoopFree == running = None

\* a call is invoked: it runs up to its `await delay(ms)` and waits
invoke(calls) ==
  /\ LoopFree
  /\ Cardinality(pending) < MaxPending
  /\ \E c \in calls \ pending : pending' = pending \cup {c}
  /\ UNCHANGED <<lv_seeded, lv_users, lv_products, lv_sales, lv_contacts, lv_access, now, events,
                 last, dispatched, assigned, signed_in, running, serial, overtaken, editing,
                 parsed, spoiled>>

\* the collections after the body of call c has run whole on the collections ser
SerialAfter(ser, c, cashier, t, code) ==
  CASE c.op = "createSale" ->
         [products |-> ProductsAfterSale(ser.products, c.input, t),
          sales |-> SalesAfterSale(ser.sales, ser.products, c.input, cashier, t, code)]
    [] c.op = "upsertProduct" ->
         [ser EXCEPT !.products = UpsertedProducts(ser.products, c.input, t)]
    [] c.op = "deleteProduct" ->
         [ser EXCEPT !.products = FilterOutId(ser.products, c.input)]
    [] OTHER -> ser

\* the delay of a createSale expires: lines 202-231, the reads, the map over
\* the lines with its throws, the sale and updatedProducts
resumeSale ==
  /\ LoopFree
  /\ \E c \in pending, code \in ReceiptCodes :
       LET err == SaleError(lv_products, c.input)
           cashier == CashierId(lv_access, lv_users)
           items == SaleItems(lv_products, c.input.items)
       IN
       /\ c.op = "createSale"
       /\ err = NoError => Len(lv_sales) < MaxSales
       /\ pending' = pending \ {c}
       /\ serial' = SerialAfter(serial, c, cashier, now, code)
       /\ IF err # NoError
            THEN /\ last' = Call("createSale", c.input, err, None)
                 /\ dispatched' = <<>>
                 /\ UNCHANGED running
            ELSE /\ running' = Some([call |-> c, pc |-> "setSales",
                                     sales |-> lv_sales,
                                     sale |-> NewSale(lv_sales, items, c.input, cashier, now, code),
                                     updatedProducts |-> DecrementStock(lv_products, items, now)])
                 /\ UNCHANGED <<last, dispatched>>
  /\ UNCHANGED <<lv_seeded, lv_users, lv_products, lv_sales, lv_contacts, lv_access, now, events,
                 assigned, signed_in, overtaken, editing, parsed, spoiled>>

\* lines 233-234: sales.push(sale); LS.set("lv_sales", sales)
saleSetSales ==
  /\ running # None
  /\ running[1].pc = "setSales"
  /\ lv_sales' = Append(running[1].sales, running[1].sale)
  /\ running' = Some([running[1] EXCEPT !.pc = "setProducts"])
  /\ UNCHANGED <<lv_seeded, lv_users, lv_products, lv_contacts, lv_access, now, events, last,
                 dispatched, assigned, signed_in, pending, serial, overtaken, editing, parsed, spoiled>>

\* lines 235-240: LS.set("lv_products", updatedProducts), the event, return
saleSetProducts ==
  /\ running # None
  /\ running[1].pc = "setProducts"
  /\ lv_products' = running[1].updatedProducts
  /\ dispatched' = << [sales |-> lv_sales, products |-> running[1].updatedProducts] >>
  /\ events' = events + 1
  /\ last' = Call("createSale", running[1].call.input, NoError, Some(running[1].sale))
  /\ running' = None
  /\ UNCHANGED <<lv_seeded, lv_users, lv_sales, lv_contacts, lv_access, now, assigned,
                 signed_in, pending, serial, overtaken, editing, parsed, spoiled>>

\* the delay of an upsertProduct expires: its body has one write
resumeUpsert ==
  /\ LoopFree
  /\ \E c \in pending :
       LET idx == UpsertTarget(lv_products, c.input) IN
       /\ c.op = "upsertProduct"
       /\ idx = 0 => NewProductId(lv_products) <= MaxProductId
       /\ pending' = pending \ {c}
       /\ serial' = SerialAfter(serial, c, 0, now, "")
       /\ lv_products' = UpsertedProducts(lv_products, c.input, now)
       /\ last' = Call("upsertProduct", c.input, NoError,
                       Some(IF idx > 0 THEN UpdatedProduct(lv_products[idx], c.input, now)
                                       ELSE CreatedProduct(lv_products, c.input, now)))
       /\ assigned' = IF idx > 0 THEN assigned ELSE assigned \cup {NewProductId(lv_products)}
  /\ dispatched' = <<>>
  /\ UNCHANGED <<lv_seeded, lv_users, lv_sales, lv_contacts, lv_access, now, events, signed_in,
                 running, overtaken, editing, parsed, spoiled>>

\* the delay of a deleteProduct expires
resumeDelete ==
  /\ LoopFree
  /\ \E c \in pending :
       /\ c.op = "deleteProduct"
       /\ pending' = pending \ {c}
       /\ serial' = SerialAfter(serial, c, 0, now, "")
       /\ lv_products' = FilterOutId(lv_products, c.input)
       /\ last' = Call("deleteProduct", c.input, NoError, None)
  /\ dispatched' = <<>>
  /\ UNCHANGED <<lv_seeded, lv_users, lv_sales, lv_contacts, lv_access, now, events, assigned,
                 signed_in, running, overtaken, editing, parsed, spoiled>>

\* the delay of a listProducts expires
resumeList ==
  /\ LoopFree
  /\ \E c \in pending :
       /\ c.op = "listProducts"
       /\ pending' = pending \ {c}
       /\ last' = Call("listProducts", c.input, NoError,
                       Some(IF c.input THEN FilterActive(lv_products) ELSE lv_products))
  /\ dispatched' = <<>>
  /\ UNCHANGED <<lv_seeded, lv_users, lv_products, lv_sales, lv_contacts, lv_access, now, events,
                 assigned, signed_in, running, serial, overtaken, editing, parsed, spoiled>>

\* the logins invoked while others are in flight
LoginCalls == { [op |-> "login", input |-> cred] : cred \in SessionCredentials }

\* the delay of a login expires: lines 138-143
resumeLogin ==
  /\ LoopFree
  /\ \E c \in pending :
       LET u == FindUser(lv_users, c.input[1], c.input[2]) IN
       /\ c.op = "login"
       /\ pending' = pending \ {c}
       /\ overtaken' = overtaken \ {c}
       /\ IF u = None
            THEN /\ last' = Call("login", c.input, <<"Credenciais invalidas">>, None)
                 /\ UNCHANGED <<lv_access, signed_in>>
            ELSE /\ lv_access' = Some([token |-> <<u[1].id, now>>, userId |-> u[1].id,
                                       at |-> now])
                 /\ last' = Call("login", c.input, NoError, u)
                 /\ signed_in' = u
  /\ dispatched' = <<>>
  /\ UNCHANGED <<lv_seeded, lv_users, lv_products, lv_sales, lv_contacts, now, events, assigned,
                 running, serial, editing, parsed, spoiled>>

----------------------------------------------------------------------------
(* parseBRLToCents: a string is the sequence of its characters *)

Digits == <<"0", "1", "2", "3", "4", "5", "6", "7", "8", "9">>

IsDigit(c) == \E i \in 1..10 : Digits[i] = c

DigitVal(c) == (CHOOSE i \in 1..10 : Digits[i] = c) - 1

RECURSIVE Pow10(_)
Pow10(k) == IF k = 0 THEN 1 ELSE 10 * Pow10(k - 1)

\* s.indexOf(c), counted from 1; 0 when c does not occur
IndexOf(s, c) ==
  IF \E i \in 1..Len(s) : s[i] = c
    THEN CHOOSE i \in 1..Len(s) : s[i] = c /\ \A j \in 1..(i - 1) : s[j] # c
    ELSE 0

\* String.prototype.trim over the blank character
trim(s) ==
  IF \A i \in 1..Len(s) : s[i] = " "
    THEN <<>>
    ELSE LET a == CHOOSE i \in 1..Len(s) : s[i] # " " /\ \A j \in 1..(i - 1) : s[j] = " "
             b == CHOOSE i \in 1..Len(s) : s[i] # " " /\ \A j \in (i + 1)..Len(s) : s[j] = " "
         IN SubSeq(s, a, b)

\* s.replace(/\./g, "")
RemoveDots(s) == SelectSeq(s, LAMBDA c : c # ".")

\* s.replace(",", "."): the first comma only
ReplaceFirstComma(s) ==
  LET i == IndexOf(s, ",") IN IF i = 0 THEN s ELSE [s EXCEPT ![i] = "."]

\* normalized when the comma is the decimal point whatever else occurs
normalizedKeepingDots(s) == ReplaceFirstComma(s)

\* lines 90-100
normalized(s) ==
  LET hasComma == IndexOf(s, ",") # 0
      hasDot == IndexOf(s, ".") # 0
  IN IF hasComma /\ hasDot THEN ReplaceFirstComma(RemoveDots(s)) ELSE ReplaceFirstComma(s)

\* line 102: normalized.replace(/[^\d.]/g, "")
cleaned(s) == SelectSeq(s, LAMBDA c : IsDigit(c) \/ c = ".")

\* the number the digits d, most significant first, denote
RECURSIVE NumberOf(_)
NumberOf(d) ==
  IF d = <<>> THEN 0 ELSE 10 * NumberOf(SubSeq(d, 1, Len(d) - 1)) + DigitVal(d[Len(d)])

\* parseFloat of a string of digits and dots: the longest prefix that is a
\* decimal literal, as the fraction num / 10^scale; NaN when there is none
parseFloat(s) ==
  LET dot == IndexOf(s, ".")
      int == IF dot = 0 THEN s ELSE SubSeq(s, 1, dot - 1)
      rest == IF dot = 0 THEN <<>> ELSE SubSeq(s, dot + 1, Len(s))
      stop == IndexOf(rest, ".")
      frac == IF stop = 0 THEN rest ELSE SubSeq(rest, 1, stop - 1)
  IN IF int = <<>> /\ frac = <<>>
       THEN [nan |-> TRUE, num |-> 0, scale |-> 0]
       ELSE [nan |-> FALSE, num |-> NumberOf(int \o frac), scale |-> Len(frac)]

\* Math.round(v * 100) of v = num / 10^scale, v >= 0
RoundTimes100(v) == (100 * v.num + Pow10(v.scale) \div 2) \div Pow10(v.scale)

parseBRLToCents(input) ==
  LET s == trim(input) IN
  IF s = <<>> THEN 0
  ELSE LET v == parseFloat(cleaned(normalized(s))) IN
       IF v.nan THEN 0 ELSE RoundTimes100(v)

\* the characters typed: two digits, both separators, a blank, a currency
\* letter, a sign
AmountChars == {"1", "9", ",", ".", " ", "R", "-"}

\* the amounts pasted whole into the field; the empty one clears it
PastedAmounts ==
  { <<>>,
    <<"1", "2", ",", "3", "4">>,
    <<"1", ".", "2", "3", "4", ",", "5", "6">>,
    <<"R", "$", " ", "1", ".", "2", "3", "4", ",", "5", "6">>,
    <<"1", "2", ".", "3", "4", "5", ".", "6", ",", "7", "8">>,
    <<"a", "b", "c">>,
    <<"0", ",", "0", "0", "4">>,
    <<"0", ".", "0", "0", "6">> }

\* the price field changes to v: parseBRLToCents(v) is called
parse(v) ==
  /\ parsed' = [input |-> v, output |-> parseBRLToCents(v)]
  /\ UNCHANGED <<lv_seeded, lv_users, lv_products, lv_sales, lv_contacts, lv_access, now, events,
                 last, dispatched, assigned, signed_in, tasks, editing, spoiled>>

\* a key is pressed at the end of the field
typeAmount ==
  /\ Len(parsed.input) < MaxAmountLen
  /\ \E c \in AmountChars : parse(Append(parsed.input, c))

\* the field is replaced by a pasted amount
pasteAmount == \E v \in PastedAmounts : parse(v)

----------------------------------------------------------------------------
(* The Products screen: startEdit, the form, save *)

\* the record startEdit() opens for a new product
BlankProduct(t) ==
  [id |-> 0, name |-> "", description |-> "", price_cents |-> 0, quantity |-> 0,
   expires_at |-> None, category |-> "outros", is_active |-> TRUE,
   created_at |-> t, updated_at |-> t]

\* startEdit(p): p is a row of the list the screen shows, which is the
\* Product collection as the screen read it, here when the row is clicked;
\* without p the blank record
startEdit ==
  /\ \/ \E k \in 1..Len(lv_products) : editing' = Some(lv_products[k])
     \/ editing' = Some(BlankProduct(now))
  /\ UNCHANGED <<lv_seeded, lv_users, lv_products, lv_sales, lv_contacts, lv_access, now, events,
                 last, dispatched, assigned, signed_in, tasks, parsed, spoiled>>

\* the prices typed into the form
EditedPrices == { <<"1">> }

\* the price field changes: setEditing({ ...editing, price_cents: parseBRLToCents(v) })
changePrice ==
  /\ editing # None
  /\ \E v \in EditedPrices :
       /\ parsed' = [input |-> v, output |-> parseBRLToCents(v)]
       /\ editing' = Some(Spread(editing[1], [price_cents |-> parseBRLToCents(v)]))
  /\ UNCHANGED <<lv_seeded, lv_users, lv_products, lv_sales, lv_contacts, lv_access, now, events,
                 last, dispatched, assigned, signed_in, tasks, spoiled>>

\* Cancelar
cancelEdit ==
  /\ editing # None
  /\ editing' = None
  /\ UNCHANGED <<lv_seeded, lv_users, lv_products, lv_sales, lv_contacts, lv_access, now, events,
                 last, dispatched, assigned, signed_in, tasks, parsed, spoiled>>

\* save: api.upsertProduct(editing) with the whole record, then
\* api.listProducts(false), then the editor closes
save ==
  /\ editing # None
  /\ LET idx == UpsertTarget(lv_products, editing[1])
         updated == UpsertedProducts(lv_products, editing[1], now)
     IN
     /\ idx = 0 => NewProductId(lv_products) <= MaxProductId
     /\ lv_products' = updated
     /\ assigned' = IF idx > 0 THEN assigned ELSE assigned \cup {NewProductId(lv_products)}
     /\ last' = Call("listProducts", FALSE, NoError, Some(updated))
  /\ editing' = None
  /\ dispatched' = <<>>
  /\ UNCHANGED <<lv_seeded, lv_users, lv_sales, lv_contacts, lv_access, now, events, signed_in,
                 tasks, parsed, spoiled>>

----------------------------------------------------------------------------
(* The storage changed from outside the program *)

\* what another holder of the origin's storage leaves under a key: nothing,
\* the empty string, text that is no JSON, or the JSON text of a collection
SpoiledPayloads(key) ==
  { [kind |-> "missing"], [kind |-> "empty"], [kind |-> "malformed"] }
    \cup (CASE key = "lv_users" -> { [kind |-> "json", value |-> SeedUsers] }
           [] key = "lv_products" -> { [kind |-> "json", value |-> SeedProducts(0)] }
           [] OTHER -> {})

\* the arguments of the operations that run on such a storage: the cashier's
\* login, the sale of two seeded products, the edit of a seeded product (a
\* creation once the product is gone) and the deletion of another
StoreCredentials == { <<"caixa@padarialv.com", "123456">> }

StorePayloads ==
  { [items |-> <<[product_id |-> 1, qty |-> 2], [product_id |-> 2, qty |-> 6]>>,
     payment_method |-> "card", discount_cents |-> 100] }

StoreProductInputs == { [id |-> 1, price_cents |-> 100] }

StoreProductIds == {3}

\* the payload under key is replaced; the store variable of key is what
\* LS.get(key, fallback) returns from then on
spoil(key, payload) ==
  LET got == LSget(payload, Fallback(key)) IN
  /\ spoiled.count < MaxSpoils
  /\ spoiled' = [key |-> key, kind |-> payload.kind, raised |-> got.raised,
                 count |-> spoiled.count + 1]
  /\ lv_seeded' = IF key = "lv_seeded" THEN got.value ELSE lv_seeded
  /\ lv_users' = IF key = "lv_users" THEN got.value ELSE lv_users
  /\ lv_products' = IF key = "lv_products" THEN got.value ELSE lv_products
  /\ lv_sales' = IF key = "lv_sales" THEN got.value ELSE lv_sales
  /\ lv_contacts' = IF key = "lv_contacts" THEN got.value ELSE lv_contacts
  /\ lv_access' = IF key = "lv_access" THEN got.value ELSE lv_access
  /\ UNCHANGED <<now, events, last, dispatched, assigned, signed_in, tasks, editing, parsed>>

----------------------------------------------------------------------------
(* The clock *)

Tick ==
  /\ now < MaxTime
  /\ now' = now + 1
  /\ UNCHANGED <<lv_seeded, lv_users, lv_products, lv_sales, lv_contacts, lv_access, events, last,
                 dispatched, assigned, signed_in,
                 tasks, editing, parsed, spoiled>>

----------------------------------------------------------------------------
(* Specifications *)

\* The store when the first call runs: App mounts, resetLocalStorageOnLoad
\* clears localStorage and seedOnce, finding no "lv_seeded", writes the seed.
Init ==
  /\ lv_seeded = TRUE
  /\ lv_users = SeedUsers
  /\ lv_products = SeedProducts(0)
  /\ lv_sales = <<>>
  /\ lv_contacts = <<>>
  /\ lv_access = None
  /\ now = 0
  /\ events = 0
  /\ last = Call("seedOnce", None, NoError, None)
  /\ dispatched = <<>>
  /\ assigned = IdsOf(SeedProducts(0))
  /\ signed_in = None
  /\ pending = {}
  /\ running = None
  /\ serial = [products |-> SeedProducts(0), sales |-> <<>>]
  /\ overtaken = {}
  /\ editing = None
  /\ parsed = [input |-> <<>>, output |-> 0]
  /\ spoiled = [key |-> "", kind |-> "json", raised |-> FALSE, count |-> 0]

\* every operation of the backend
Next ==
  \/ seedOnce
  \/ login
  \/ logout
  \/ me
  \/ listProducts
  \/ upsertProduct(BasicProductInputs)
  \/ deleteProduct
  \/ createSale(BasicPayloads)
  \/ sendContact

Spec == Init /\ [][Next]_vars

\* the product and sale operations over all their inputs
SaleNext ==
  \/ upsertProduct(ProductInputs)
  \/ deleteProduct
  \/ createSale(SalePayloads)

SaleSpec == Init /\ [][SaleNext]_vars

\* sales and product edits while the clock runs
ClockNext ==
  \/ upsertProduct(BasicProductInputs)
  \/ createSale(SalePayloads)
  \/ Tick

ClockSpec == Init /\ [][ClockNext]_vars

\* the product operations over the editor's inputs while the clock runs
ProductNext ==
  \/ upsertProduct(EditInputs)
  \/ \E id \in TailProductIds : deleteProductCall(id)
  \/ Tick

ProductSpec == Init /\ [][ProductNext]_vars

\* the session and contact operations, and sales by whoever is signed in,
\* while the clock runs
SessionNext ==
  \/ \E cred \in SessionCredentials : loginCall(cred)
  \/ logout
  \/ me
  \/ sendContact
  \/ createSale(BasicPayloads)
  \/ Tick

SessionSpec == Init /\ [][SessionNext]_vars

\* product and sale calls invoked while others wait in their delay
TaskNext ==
  \/ invoke(TaskCalls)
  \/ resumeSale
  \/ saleSetSales
  \/ saleSetProducts
  \/ resumeUpsert
  \/ resumeDelete
  \/ resumeList

TaskSpec == Init /\ [][TaskNext]_vars

\* every operation of the backend on a storage that is also changed from
\* outside
StoreNext ==
  \/ \E key \in Keys : \E payload \in SpoiledPayloads(key) : spoil(key, payload)
  \/ onStore("login", \E cred \in StoreCredentials : loginCall(cred))
  \/ onStore("me", me)
  \/ onStore("listProducts", listProducts)
  \/ onStore("upsertProduct", upsertProduct(StoreProductInputs))
  \/ onStore("deleteProduct", \E id \in StoreProductIds : deleteProductCall(id))
  \/ onStore("createSale", createSale(StorePayloads))
  \/ onStore("sendContact", sendContact)

StoreSpec == Init /\ [][StoreNext]_vars

\* logins in flight while the user logs out
FlightNext ==
  \/ invoke(LoginCalls)
  \/ resumeLogin
  \/ logout
  \/ me

FlightSpec == Init /\ [][FlightNext]_vars

\* the product editor open while sales are made
EditorNext ==
  \/ startEdit
  \/ changePrice
  \/ cancelEdit
  \/ save
  \/ createSale(BasicPayloads)

EditorSpec == Init /\ [][EditorNext]_vars

\* amounts typed into a price field
ParseNext ==
  \/ typeAmount
  \/ pasteAmount

ParseSpec == Init /\ [][ParseNext]_vars

----------------------------------------------------------------------------
(* Vocabulary of the claims *)

\* this step is one call of createSale, with argument last'.input
CreateSaleStep ==
  /\ last'.op = "createSale"
  /\ \E code \in ReceiptCodes : createSaleCall(last'.input, code)

\* this step is one call of upsertProduct, with argument last'.input
UpsertStep ==
  /\ last'.op = "upsertProduct"
  /\ upsertProductCall(last'.input)

\* this step is one call of deleteProduct, with argument last'.input
DeleteStep ==
  /\ last'.op = "deleteProduct"
  /\ deleteProductCall(last'.input)

\* this step is one call of login, with arguments last'.input
LoginStep ==
  /\ last'.op = "login"
  /\ loginCall(last'.input)

\* this step is one call of logout
LogoutStep ==
  /\ last'.op = "logout"
  /\ logout

\* this step is one call of seedOnce
SeedStep ==
  /\ last'.op = "seedOnce"
  /\ seedOnce

\* this step is one call of sendContact
ContactStep ==
  /\ last'.op = "sendContact"
  /\ sendContact

\* upsertProduct(input) on these products creates a product
Creates(products, input) ==
  ~Has(input, "id") \/ \A k \in 1..Len(products) : products[k].id # input.id

\* the fields of a product a caller of upsertProduct may set on creation
SettableFields ==
  {"name", "description", "price_cents", "cost_cents", "quantity", "expires_at",
   "category", "is_active", "image_url"}

Absent(products, pid) == \A k \in 1..Len(products) : products[k].id # pid

Short(products, line) ==
  \E k \in 1..Len(products) :
    products[k].id = line.product_id /\ products[k].quantity < line.qty

ProductById(products, pid) ==
  products[CHOOSE k \in 1..Len(products) : products[k].id = pid]

\* the greatest id of a collection, 0 when it is empty
MaxIdOf(list) ==
  IF Len(list) = 0 THEN 0
  ELSE LET ids == {list[k].id : k \in 1..Len(list)}
       IN CHOOSE m \in ids : \A x \in ids : x <= m

RECURSIVE SubtotalSum(_, _)
SubtotalSum(items, n) ==
  IF n = 0 THEN 0 ELSE SubtotalSum(items, n - 1) + items[n].subtotal_cents

\* the quantity the items of a sale take of product pid, over all its items
RECURSIVE QtySum(_, _, _)
QtySum(items, pid, n) ==
  IF n = 0 THEN 0
  ELSE QtySum(items, pid, n - 1) + (IF items[n].product_id = pid THEN items[n].qty ELSE 0)

IdsStrictlyIncreasing(list) ==
  \A i, j \in 1..Len(list) : i < j => list[i].id < list[j].id

AllStockNonNegative(products) ==
  \A k \in 1..Len(products) : products[k].quantity >= 0

----------------------------------------------------------------------------
(* Claims *)

\* C1: a createSale that throws (product not found or insufficient stock, on
\* any line) leaves the Sale collection and the whole Product collection,
\* quantities and updated_at included, exactly as they were.
C1Theorem ==
  [][(CreateSaleStep /\ last'.err # NoError)
       => (lv_sales' = lv_sales /\ lv_products' = lv_products)]_vars

\* a createSale has failed on its second line after its first line validated,
\* at a time later than the products' updated_at
C1Witness ==
  /\ last.op = "createSale"
  /\ last.err # NoError
  /\ Len(last.input.items) = 2
  /\ ~Absent(lv_products, last.input.items[1].product_id)
  /\ ~Short(lv_products, last.input.items[1])
  /\ now > 0

\* C2 (as claimed): after a successful createSale every product the request
\* references has lost the sum of qty over all recorded items that reference
\* it, and every other product is unchanged in every field.
C2Claim ==
  [][(CreateSaleStep /\ last'.err = NoError)
       => /\ Len(lv_products') = Len(lv_products)
          /\ \A k \in 1..Len(lv_products) :
               LET p == lv_products[k]
                   q == lv_products'[k]
                   items == last'.ret[1].items
               IN IF \E i \in 1..Len(last'.input.items) :
                       last'.input.items[i].product_id = p.id
                    THEN /\ q.id = p.id
                         /\ q.quantity = p.quantity - QtySum(items, p.id, Len(items))
                    ELSE q = p]_vars

\* C3: createSale checks the lines in input order, existence before stock: it
\* succeeds exactly when no line names an absent product or asks for more than
\* the stock, and otherwise throws the error of the first offending line.
C3Theorem ==
  [][CreateSaleStep
       => LET lines == last'.input.items
              offending == {i \in 1..Len(lines) :
                              \/ Absent(lv_products, lines[i].product_id)
                              \/ Short(lv_products, lines[i])}
          IN IF offending = {}
               THEN last'.err = NoError
               ELSE LET first == CHOOSE i \in offending : \A j \in offending : i <= j
                    IN IF Absent(lv_products, lines[first].product_id)
                         THEN last'.err = <<"Produto nao encontrado">>
                         ELSE last'.err =
                                <<"Estoque insuficiente de",
                                  ProductById(lv_products, lines[first].product_id).name>>]_vars

\* a createSale has thrown insufficient stock for its first line although a
\* later line names a product that does not exist
C3Witness ==
  /\ last.op = "createSale"
  /\ last.err # NoError
  /\ last.err[1] = "Estoque insuficiente de"
  /\ \E i \in 2..Len(last.input.items) :
       Absent(lv_products, last.input.items[i].product_id)

\* C4: every recorded sale has total_cents = max(0, sum of its items'
\* subtotal_cents - discount_cents) and paid_cents = total_cents.
C4Theorem ==
  \A i \in 1..Len(lv_sales) :
    LET sale == lv_sales[i]
        sum == SubtotalSum(sale.items, Len(sale.items))
    IN /\ sale.total_cents = Max(0, sum - sale.discount_cents)
       /\ sale.paid_cents = sale.total_cents

\* a sale is recorded whose discount exceeds the sum of its subtotals
C4Witness ==
  \E i \in 1..Len(lv_sales) :
    /\ Len(lv_sales[i].items) > 0
    /\ SubtotalSum(lv_sales[i].items, Len(lv_sales[i].items)) > 0
    /\ lv_sales[i].discount_cents > SubtotalSum(lv_sales[i].items, Len(lv_sales[i].items))
    /\ lv_sales[i].total_cents = 0

\* C5: a successful createSale returns the sale it appends, and the k-th item
\* of that sale has id k, the k-th line's product_id and qty, the price of that
\* product when the call ran as unit_price_cents, and unit price times qty as
\* subtotal_cents.
C5Theorem ==
  [][(CreateSaleStep /\ last'.err = NoError)
       => LET sale == last'.ret[1]
              lines == last'.input.items
          IN /\ lv_sales' = Append(lv_sales, sale)
             /\ Len(sale.items) = Len(lines)
             /\ \A k \in 1..Len(lines) :
                  LET it == sale.items[k] IN
                  /\ it.id = k
                  /\ it.product_id = lines[k].product_id
                  /\ it.qty = lines[k].qty
                  /\ it.unit_price_cents =
                       ProductById(lv_products, lines[k].product_id).price_cents
                  /\ it.subtotal_cents = it.unit_price_cents * it.qty]_vars

\* a two-line sale has just been returned whose second item carries the price
\* product 2 was given after the seed
C5Witness ==
  /\ last.op = "createSale"
  /\ last.err = NoError
  /\ Len(last.ret[1].items) = 2
  /\ last.ret[1].items[1].unit_price_cents = 90
  /\ last.ret[1].items[2].unit_price_cents = 350

\* C6: a successful createSale gives the new sale the greatest recorded id
\* (0 when none) plus 1, and the ids of the recorded sales are strictly
\* increasing in collection order, hence pairwise distinct.
C6Theorem ==
  /\ [](IdsStrictlyIncreasing(lv_sales))
  /\ [][(CreateSaleStep /\ last'.err = NoError)
          => last'.ret[1].id = MaxIdOf(lv_sales) + 1]_vars

\* two sales are recorded, the second by the call that has just returned
C6Witness ==
  /\ Len(lv_sales) = 2
  /\ last.op = "createSale"
  /\ last.err = NoError
  /\ last.ret[1].id = 2

\* C7: whatever operation runs, the recorded sales stay as they are and in
\* place; the Sale collection changes only by growing at its end.
C7Theorem ==
  [][/\ Len(lv_sales') >= Len(lv_sales)
     /\ \A i \in 1..Len(lv_sales) : lv_sales'[i] = lv_sales[i]]_vars

\* two sales keep the two prices product 2 had when each was made, and product
\* 2 has since been deleted
C7Witness ==
  /\ Len(lv_sales) = 2
  /\ lv_sales[1].items[2].product_id = 2
  /\ lv_sales[1].items[2].unit_price_cents = 3500
  /\ lv_sales[2].items[2].product_id = 2
  /\ lv_sales[2].items[2].unit_price_cents = 350
  /\ Absent(lv_products, 2)

\* C8: a createSale that starts with no negative stock, whether it succeeds or
\* throws, ends with no negative stock.
C8Theorem ==
  [][(CreateSaleStep /\ AllStockNonNegative(lv_products))
       => AllStockNonNegative(lv_products')]_vars

\* a sale has just taken 6 of product 2 and left less than 6 of it
C8Witness ==
  /\ last.op = "createSale"
  /\ last.err = NoError
  /\ \E i \in 1..Len(last.input.items) :
       last.input.items[i] = [product_id |-> 2, qty |-> 6]
  /\ \E k \in 1..Len(lv_products) :
       lv_products[k].id = 2 /\ lv_products[k].quantity < 6

\* C9 (as claimed): every item a createSale records has qty > 0 and names a
\* product that was in the Product collection when the sale was made.
C9Claim ==
  [][(CreateSaleStep /\ last'.err = NoError)
       => \A k \in 1..Len(last'.ret[1].items) :
            /\ last'.ret[1].items[k].qty > 0
            /\ ~Absent(lv_products, last'.ret[1].items[k].product_id)]_vars

C11Claim ==
  [][(UpsertStep /\ Creates(lv_products, last'.input))
       => \A i \in assigned : i < last'.ret[1].id]_vars

\* C12: an upsertProduct whose id matches a product keeps that product's id
\* and position, gives it every supplied field, keeps every other field, sets
\* updated_at to the time of the call whatever the input supplies, returns it,
\* and leaves every other product, the number of products, and the Sale, User,
\* Contact and Session records as they were.
C12Theorem ==
  [][(UpsertStep /\ ~Creates(lv_products, last'.input))
       => LET input == last'.input IN
          /\ Len(lv_products') = Len(lv_products)
          /\ \A k \in 1..Len(lv_products) :
               LET p == lv_products[k]
                   q == lv_products'[k]
               IN IF p.id = input.id
                    THEN /\ q.id = p.id
                         /\ DOMAIN q = (DOMAIN p) \cup (DOMAIN input)
                         /\ q.updated_at = now
                         /\ \A f \in (DOMAIN input) \ {"updated_at"} : q[f] = input[f]
                         /\ \A f \in (DOMAIN p) \ ((DOMAIN input) \cup {"updated_at"}) :
                              q[f] = p[f]
                         /\ last'.ret = Some(q)
                    ELSE q = p
          /\ UNCHANGED <<lv_sales, lv_users, lv_contacts, lv_access>>]_vars

\* product 3 has just been renamed by a call that supplied an updated_at of
\* its own, at a time after the seed, in a collection of five products
C12Witness ==
  /\ last.op = "upsertProduct"
  /\ Has(last.input, "updated_at")
  /\ last.input.updated_at # now
  /\ now > 0
  /\ Len(lv_products) = 5
  /\ lv_products[3].id = 3
  /\ lv_products[3].name = "Sonho de Creme"
  /\ lv_products[3].expires_at = None
  /\ lv_products[3].quantity = 20
  /\ lv_products[3].updated_at = now

\* C13 (as claimed): a created product has, for every field the input lacks,
\* the default "" (name, description, image_url), 0 (price_cents, quantity),
\* null (cost_cents, expires_at), "outros" (category), true (is_active), has
\* every supplied field as given, and created_at = updated_at = the time of
\* the call.
C13Claim ==
  [][(UpsertStep /\ Creates(lv_products, last'.input))
       => LET input == last'.input
              created == last'.ret[1]
              defaults == [name |-> "", description |-> "", image_url |-> "",
                           price_cents |-> 0, quantity |-> 0, cost_cents |-> None,
                           expires_at |-> None, category |-> "outros",
                           is_active |-> TRUE]
          IN /\ \A f \in SettableFields :
                  created[f] = IF Has(input, f) THEN input[f] ELSE defaults[f]
             /\ created.created_at = now
             /\ created.updated_at = now]_vars

\* C13 (amended): as claimed, except that the name is "Produto" when the
\* input lacks it or supplies the empty string.
C13Theorem ==
  [][(UpsertStep /\ Creates(lv_products, last'.input))
       => LET input == last'.input
              created == last'.ret[1]
              defaults == [name |-> "Produto", description |-> "", image_url |-> "",
                           price_cents |-> 0, quantity |-> 0, cost_cents |-> None,
                           expires_at |-> None, category |-> "outros",
                           is_active |-> TRUE]
          IN /\ lv_products' = Append(lv_products, created)
             /\ DOMAIN created = SettableFields \cup {"id", "created_at", "updated_at"}
             /\ \A f \in SettableFields \ {"name"} :
                  created[f] = IF Has(input, f) THEN input[f] ELSE defaults[f]
             /\ created.name = IF Has(input, "name") /\ input.name # ""
                                 THEN input.name ELSE defaults.name
             /\ created.created_at = now
             /\ created.updated_at = now]_vars

\* a product has just been created, after the seed, from an input that
\* supplies every settable field but the cost, the name as the empty string
C13Witness ==
  /\ last.op = "upsertProduct"
  /\ Has(last.input, "name")
  /\ last.input.name = ""
  /\ last.ret[1].name = "Produto"
  /\ last.ret[1].cost_cents = None
  /\ last.ret[1].created_at = now
  /\ now > 0
  /\ lv_products[Len(lv_products)] = last.ret[1]

\* C14: deleteProduct(id) throws nothing, removes the product with that id
\* and nothing else, keeps the others in order, leaves the collection as it
\* was when no product has that id, so that a second deleteProduct(id) changes
\* nothing more, and leaves every other collection as it was.
C14Theorem ==
  [][DeleteStep
       => LET id == last'.input
              idx == {k \in 1..Len(lv_products) : lv_products[k].id = id}
          IN /\ last'.err = NoError
             /\ Cardinality(idx) <= 1
             /\ IF idx = {} THEN lv_products' = lv_products
                ELSE LET k == CHOOSE k \in idx : TRUE
                     IN lv_products' = SubSeq(lv_products, 1, k - 1)
                                       \o SubSeq(lv_products, k + 1, Len(lv_products))
             /\ Absent(lv_products', id)
             /\ FilterOutId(lv_products', id) = lv_products'
             /\ UNCHANGED <<lv_sales, lv_users, lv_contacts, lv_access>>]_vars

\* product 4 has just been deleted from between two others
C14Witness ==
  /\ last.op = "deleteProduct"
  /\ last.input = 4
  /\ Len(lv_products) = 4
  /\ lv_products[3].id = 3
  /\ lv_products[4].id = 5

\* C15 (as claimed): every product has updated_at >= created_at in every
\* state, and an upsertProduct that updates a product or a createSale that
\* takes stock of it sets its updated_at to the time of the call.
C15Claim ==
  /\ [](\A k \in 1..Len(lv_products) :
          lv_products[k].updated_at >= lv_products[k].created_at)
  /\ [][\A k \in 1..Len(lv_products) :
          (/\ k <= Len(lv_products')
           /\ lv_products'[k].id = lv_products[k].id
           /\ lv_products'[k] # lv_products[k])
            => lv_products'[k].updated_at = now]_vars

\* C16: login(email, password) succeeds, returning a matching user and making
\* the session name it, exactly when some user is active and has that email
\* and that password; otherwise it throws the invalid-credentials error and
\* leaves the Session record as it was.
C16Theorem ==
  [][LoginStep
       => LET email == last'.input[1]
              password == last'.input[2]
              matching == {i \in 1..Len(lv_users) :
                             /\ lv_users[i].is_active
                             /\ lv_users[i].email = email
                             /\ lv_users[i].password = password}
          IN IF matching # {}
               THEN /\ last'.err = NoError
                    /\ \E i \in matching : last'.ret = Some(lv_users[i])
                    /\ lv_access' # None
                    /\ lv_access'[1].userId = last'.ret[1].id
               ELSE /\ last'.err = <<"Credenciais invalidas">>
                    /\ last'.ret = None
                    /\ lv_access' = lv_access]_vars

\* a login with a right password and an email no user has has just failed
\* while the manager is signed in
C16Witness ==
  /\ last.op = "login"
  /\ last.err # NoError
  /\ last.input[2] = "123456"
  /\ lv_access # None
  /\ lv_access[1].userId = 1

\* C17: api.me returns the user of the most recent successful login when no
\* logout has come since, and null when none has succeeded or a logout came
\* last; logout throws nothing, clears the session, and changes nothing when
\* there is no session.
C17Theorem ==
  /\ [](last.op = "me" => last.ret = signed_in)
  /\ [](MeOf(lv_access, lv_users) = signed_in)
  /\ [][LogoutStep
          => /\ last'.err = NoError
             /\ lv_access' = None
             /\ lv_access = None
                  => UNCHANGED <<lv_seeded, lv_users, lv_products, lv_sales,
                                 lv_contacts, lv_access>>]_vars

\* api.me has just returned the manager, who signed in after the cashier had
\* signed in and recorded a sale
C17Witness ==
  /\ last.op = "me"
  /\ last.ret # None
  /\ last.ret[1].id = 1
  /\ Len(lv_sales) = 1
  /\ lv_sales[1].cashier_id = 2

\* C18: a seedOnce that finds the seeded flag set changes nothing in the
\* store, whatever product, sale, contact and session operations came before;
\* the flag is set ever since the first seedOnce.
C18Theorem ==
  /\ [](lv_seeded)
  /\ [][SeedStep
          => UNCHANGED <<lv_seeded, lv_users, lv_products, lv_sales, lv_contacts,
                         lv_access>>]_vars

\* seedOnce has just run on a store that holds a sale, a message, a session,
\* a created product, and no product 2 any more
C18Witness ==
  /\ last.op = "seedOnce"
  /\ Len(lv_sales) = 1
  /\ Len(lv_contacts) = 1
  /\ lv_access # None
  /\ Len(lv_products) = 4
  /\ Absent(lv_products, 2)

\* C19: sendContact throws nothing and appends one message, which it returns:
\* the input's name, email and message, the time of the call, and an id above
\* the id of every message already stored; the stored messages stay as they
\* are, and Products, Sales, Users and the Session are untouched.
C19Theorem ==
  [][ContactStep
       => LET n == Len(lv_contacts)
              msg == lv_contacts'[n + 1]
          IN /\ last'.err = NoError
             /\ Len(lv_contacts') = n + 1
             /\ \A k \in 1..n : lv_contacts'[k] = lv_contacts[k]
             /\ \A k \in 1..n : lv_contacts[k].id < msg.id
             /\ msg.name = last'.input.name
             /\ msg.email = last'.input.email
             /\ msg.message = last'.input.message
             /\ msg.created_at = now
             /\ last'.ret = Some(msg)
             /\ UNCHANGED <<lv_products, lv_sales, lv_users, lv_access>>]_vars

\* a second message has just been stored, later than the first
C19Witness ==
  /\ last.op = "sendContact"
  /\ Len(lv_contacts) = 2
  /\ last.ret[1].id = 2
  /\ lv_contacts[1].id = 1
  /\ lv_contacts[2].created_at > lv_contacts[1].created_at

\* C20: a createSale that succeeds dispatches one "lv:sales-change", whose
\* listeners read the Sale collection with the new sale and the Product
\* collection with the stock taken; a createSale that throws, and every other
\* operation, dispatches none.
C20Theorem ==
  [][IF CreateSaleStep /\ last'.err = NoError
       THEN /\ events' = events + 1
            /\ Len(dispatched') = 1
            /\ dispatched'[1].sales = Append(lv_sales, last'.ret[1])
            /\ dispatched'[1].sales = lv_sales'
            /\ dispatched'[1].products = lv_products'
            /\ \A k \in 1..Len(lv_products) :
                 (\E i \in 1..Len(last'.input.items) :
                    last'.input.items[i].product_id = lv_products[k].id)
                   => dispatched'[1].products[k].quantity < lv_products[k].quantity
       ELSE /\ events' = events
            /\ dispatched' = <<>> \/ UNCHANGED <<last, dispatched>>]_vars

\* the second sale has just been recorded, and the listeners of its event
\* read both sales and the one unit of product 2 it left
C20Witness ==
  /\ last.op = "createSale"
  /\ last.err = NoError
  /\ events = 2
  /\ Len(dispatched) = 1
  /\ Len(dispatched[1].sales) = 2
  /\ \E k \in 1..Len(dispatched[1].products) :
       dispatched[1].products[k].id = 2 /\ dispatched[1].products[k].quantity = 1

\* C21: however the bodies of concurrently invoked createSale, upsertProduct,
\* deleteProduct and listProducts calls are ordered by their delays, each body
\* starts on a store that holds the sale and the stock decrement of every
\* earlier createSale or neither, listProducts returns such a store, and
\* whenever no body is running the store is what running the bodies whole,
\* one after another in the order their delays expired, leaves.
C21Theorem ==
  /\ [](running = None => (lv_products = serial.products /\ lv_sales = serial.sales))
  /\ [][(pending' # pending /\ pending' \subseteq pending)
          => /\ running = None
             /\ lv_products = serial.products
             /\ lv_sales = serial.sales]_vars
  /\ [][(last' # last /\ last'.op = "listProducts")
          => last'.ret = Some(serial.products)]_vars

\* a second sale is written to the Sale collection, its stock not yet taken,
\* while an edit of product 2 and a listing wait in their delays
C21Witness ==
  /\ running # None
  /\ running[1].pc = "setProducts"
  /\ Len(lv_sales) = 2
  /\ \E c \in pending : c.op = "upsertProduct" /\ Has(c.input, "id")
  /\ \E c \in pending : c.op = "listProducts"

\* the digits of s, in order
DigitsOf(s) == SelectSeq(s, IsDigit)

\* the character that is the decimal point of s: the comma when s has one,
\* the dot otherwise
DecimalPointOf(s) == IF \E i \in 1..Len(s) : s[i] = "," THEN "," ELSE "."

Occurrences(s, c) == Cardinality({i \in 1..Len(s) : s[i] = c})

\* s has a digit and at most one decimal point
IsAmount(s) ==
  /\ DigitsOf(s) # <<>>
  /\ Occurrences(s, DecimalPointOf(s)) <= 1

\* the cents of the amount s: the digits before the decimal point are whole
\* units, the first two after it are cents, a third of 5 or more rounds up
AmountCents(s) ==
  LET at == IndexOf(s, DecimalPointOf(s))
      units == IF at = 0 THEN DigitsOf(s) ELSE DigitsOf(SubSeq(s, 1, at - 1))
      part == IF at = 0 THEN <<>> ELSE DigitsOf(SubSeq(s, at + 1, Len(s)))
      d(i) == IF i <= Len(part) THEN DigitVal(part[i]) ELSE 0
  IN 100 * NumberOf(units) + 10 * d(1) + d(2) + (IF d(3) >= 5 THEN 1 ELSE 0)

\* C22: parseBRLToCents returns a number for every string: 0 for an empty or
\* blank one, 0 for one without a digit, and for a string with a digit and
\* one decimal point at most the cents of the amount, where the comma is the
\* decimal point when there is one (every dot is then a thousands separator)
\* and the dot is otherwise.
C22Theorem ==
  LET s == parsed.input IN
  /\ parsed.output \in Nat
  /\ (\A i \in 1..Len(s) : s[i] = " ") => parsed.output = 0
  /\ DigitsOf(s) = <<>> => parsed.output = 0
  /\ IsAmount(s) => parsed.output = AmountCents(s)

\* "1.234,56" has been parsed to 123456
C22Witness ==
  /\ parsed.input = <<"1", ".", "2", "3", "4", ",", "5", "6">>
  /\ parsed.output = 123456

\* the step is a change of the storage from outside the program
SpoilStep ==
  /\ spoiled'.key \in Keys
  /\ \E payload \in SpoiledPayloads(spoiled'.key) :
       payload.kind = spoiled'.kind /\ spoil(spoiled'.key, payload)

\* what LS.get(key, fallback) returns
Stored(key, users, products, sales, contacts, access, seeded) ==
  CASE key = "lv_users" -> users
    [] key = "lv_products" -> products
    [] key = "lv_sales" -> sales
    [] key = "lv_contacts" -> contacts
    [] key = "lv_access" -> access
    [] OTHER -> seeded

\* the errors the operations raise themselves
OwnErrors == {"Credenciais invalidas", "Produto nao encontrado", "Estoque insuficiente de"}

C24Claim ==
  [][(CreateSaleStep /\ last'.err = NoError)
       => \A k \in 1..Len(lv_products) :
            LET items == last'.ret[1].items IN
            QtySum(items, lv_products[k].id, Len(items)) <= lv_products[k].quantity]_vars

\* the step is a save of the product editor
SaveStep ==
  /\ editing # None
  /\ save

\* C25 (as claimed): when the editor saves a product it opened, its quantity
\* field never changed in the form, the stored quantity of that product after
\* the save is the stored quantity before it: what a sale committed since
\* startEdit took stays taken.
C25Claim ==
  [][SaveStep
       => \A k \in 1..Len(lv_products) :
            lv_products[k].id = editing[1].id
              => lv_products'[k].quantity = lv_products[k].quantity]_vars

\* C26 (as claimed): while api.me() returns null after a logout, the body of a
\* login that was waiting in its delay when that logout ran leaves api.me()
\* returning null: only a login invoked after the logout signs a user in.
C26Claim ==
  [][\A c \in overtaken \cap pending :
       (c \notin pending' /\ MeOf(lv_access, lv_users) = None)
         => MeOf(lv_access', lv_users') = None]_vars

====
